---- MODULE Spec2Model ----
(***************************************************************************)
(* Model of jina/logging/base.py: the four formatters, the EventHandler,   *)
(* the NTLogger fallback and the get_logger assembly, together with the    *)
(* parts of the host logging facility that get_logger relies on (level     *)
(* gating in Logger and Handler, deferred-open file handlers).             *)
(***************************************************************************)
EXTENDS Integers, Sequences, FiniteSets, TLC

VARIABLES
    osName,        \* os.name of the process
    rootHandlers,  \* logging.root.handlers
    logger,        \* the logging.Logger registered under the context name
    sinks,         \* what each output target holds (stdout, queues, files)
    fileExists,    \* which log files exist on disk
    ret,           \* the last get_logger call: its JINA_VERBOSITY and its outcome
    lastOp,        \* the last operation: get_logger, or a logged record and the handlers that got it
    ev,            \* the shared event object: record slot and flag
    evLevel,       \* threshold of the stand-alone EventHandler
    evPc,          \* position of each emitting thread inside emit
    evRec,         \* record each emitting thread is emitting
    evLeft,        \* emissions each thread may still start
    evWrites,      \* number of stores into the slot so far
    consumed,      \* the consumer: its position, its wake-ups, what it last retrieved
    nt,            \* the NTLogger instance
    ntOut,         \* what the NTLogger wrote to sys.stdout, one entry per write
    ntLast,        \* the last NTLogger operation invoked
    record,        \* the LogRecord handed to a formatter
    heap,          \* the dict object record.msg may refer to
    orig,          \* record and heap as the caller built them
    fmtOut         \* result of the last format call

vars == <<osName, rootHandlers, logger, sinks, fileExists, ret, lastOp,
          ev, evLevel, evPc, evRec, evLeft, evWrites, consumed,
          nt, ntOut, ntLast, record, heap, orig, fmtOut>>

loggerVars == <<osName, rootHandlers, logger, sinks, fileExists, ret, lastOp>>
eventVars == <<evLevel, evPc, evRec, evLeft, evWrites, consumed>>
ntVars == <<nt, ntOut, ntLast>>
fmtVars == <<record, heap, orig, fmtOut>>

None == "None"

\* ------------------------------------------------------------------------
\* Bounds
\* ------------------------------------------------------------------------
MaxLen == 6        \* longest message string handed to a formatter
MaxLines == 2      \* lines a sink holds before logging stops
MaxWrites == 2     \* writes of the NTLogger
MaxEmits == 2      \* emissions per emitting thread

\* ------------------------------------------------------------------------
\* Verbosity (jina.enums.LogVerbosity)
\* ------------------------------------------------------------------------
LevelNames == <<"DEBUG", "INFO", "WARNING", "ERROR", "CRITICAL">>

LogVerbosity ==
    [n \in {"DEBUG", "INFO", "WARNING", "ERROR", "CRITICAL"} |->
        CASE n = "DEBUG" -> 10
          [] n = "INFO" -> 20
          [] n = "WARNING" -> 30
          [] n = "ERROR" -> 40
          [] n = "CRITICAL" -> 50]

Levels == {LogVerbosity[n] : n \in DOMAIN LogVerbosity}

InvalidVerbosity == "InvalidVerbosity"

\* from_string(name): case-sensitive exact match, otherwise an error
from_string(s) ==
    IF s \in DOMAIN LogVerbosity
    THEN [raised |-> None, value |-> LogVerbosity[s]]
    ELSE [raised |-> InvalidVerbosity, value |-> 0]

\* ------------------------------------------------------------------------
\* Strings are sequences of characters; re.sub(u'\u001b\[.*?[@-~]', '', s)
\* ------------------------------------------------------------------------
ESC == "ESC"
NL == "NL"
Alphabet == {ESC, "[", "3", "m"}

\* the character class [@-~] restricted to the characters in use
FinalBytes == {"[", "m", "j", "{", "}"}

\* '.' matches every character but a newline
IsDot(c) == c # NL

\* end index of the leftmost lazy match of \x1b\[.*?[@-~] starting at i, or 0
RECURSIVE LazyEnd(_, _)
LazyEnd(s, j) ==
    IF j > Len(s) THEN 0
    ELSE IF s[j] \in FinalBytes THEN j
    ELSE IF IsDot(s[j]) THEN LazyEnd(s, j + 1)
    ELSE 0

MatchEnd(s, i) ==
    IF i + 1 <= Len(s) /\ s[i] = ESC /\ s[i + 1] = "[" THEN LazyEnd(s, i + 2)
    ELSE 0

\* one left-to-right pass replacing the non-overlapping matches by ''
RECURSIVE SubFrom(_, _)
SubFrom(s, i) ==
    IF i > Len(s) THEN <<>>
    ELSE IF MatchEnd(s, i) # 0 THEN SubFrom(s, MatchEnd(s, i) + 1)
    ELSE <<s[i]>> \o SubFrom(s, i + 1)

re_sub(s) == SubFrom(s, 1)

\* NTLogger._planify
_planify(msg) == re_sub(msg)

StringsUpTo(n) == UNION {[1..k -> Alphabet] : k \in 0..n}

\* ------------------------------------------------------------------------
\* get_logger and the logger it assembles
\* ------------------------------------------------------------------------
Context == <<"j">>     \* the context name the process asks for

Targets == {"stdout", "log_queue", "profile_queue",
            "profile_file", "txt_file", "json_file"}
FileTargets == {"profile_file", "txt_file", "json_file"}

MsgKinds == {"str", "dict"}

NOTSET == 0

\* a file handler built without delay=True opens its stream at once
Handler_no_delay(cls, target, level, fmt, tmpl) ==
    [cls |-> cls, target |-> target, level |-> level, fmt |-> fmt,
     tmpl |-> tmpl, stream |-> IF cls = "FileHandler" THEN "open" ELSE None]

\* a handler as its constructor and setLevel/setFormatter leave it
Handler(cls, target, level, fmt, tmpl) ==
    [cls |-> cls, target |-> target, level |-> level, fmt |-> fmt,
     tmpl |-> tmpl, stream |-> None]

\* lines 148-152: the two templates
FmtStr(context, fmt_str) ==
    IF fmt_str = None THEN <<"default", context>> ELSE <<fmt_str>>

TimedFmtStr(context, fmt_str) == <<"asctime">> \o FmtStr(context, fmt_str)

\* NewHandlers with the console handler attached only when sse is off
NewHandlers_console_unless_sse(context, profiling, sse, fmt_str, log_event, v, logFormat) ==
    LET f == FmtStr(context, fmt_str)
        tf == TimedFmtStr(context, fmt_str)
        event == IF log_event # None
                 THEN <<Handler("EventHandler", "log_event", v, "ColorFormatter", f)>>
                 ELSE <<>>
        prof == <<Handler("FileHandler", "profile_file", NOTSET, "ProfileFormatter", tf)>>
                \o (IF sse
                    THEN <<Handler("QueueHandler", "profile_queue", v, "JsonFormatter", tf)>>
                    ELSE <<>>)
        plain == (IF sse
                  THEN <<Handler("QueueHandler", "log_queue", v, "JsonFormatter", tf)>>
                  ELSE <<Handler("StreamHandler", "stdout", v, "ColorFormatter", f)>>)
                 \o (IF logFormat = "TXT"
                     THEN <<Handler("FileHandler", "txt_file", NOTSET, "PlainFormatter", tf)>>
                     ELSE IF logFormat = "JSON"
                     THEN <<Handler("FileHandler", "json_file", NOTSET, "JsonFormatter", tf)>>
                     ELSE <<>>)
    IN event \o (IF profiling THEN prof ELSE plain)

\* lines 170-205: the handlers a first acquisition attaches, in order
NewHandlers(context, profiling, sse, fmt_str, log_event, v, logFormat) ==
    LET f == FmtStr(context, fmt_str)
        tf == TimedFmtStr(context, fmt_str)
        event == IF log_event # None
                 THEN <<Handler("EventHandler", "log_event", v, "ColorFormatter", f)>>
                 ELSE <<>>
        prof == <<Handler("FileHandler", "profile_file", NOTSET, "ProfileFormatter", tf)>>
                \o (IF sse
                    THEN <<Handler("QueueHandler", "profile_queue", v, "JsonFormatter", tf)>>
                    ELSE <<>>)
        plain == (IF sse
                  THEN <<Handler("QueueHandler", "log_queue", v, "JsonFormatter", tf)>>
                  ELSE <<>>)
                 \o <<Handler("StreamHandler", "stdout", v, "ColorFormatter", f)>>
                 \o (IF logFormat = "TXT"
                     THEN <<Handler("FileHandler", "txt_file", NOTSET, "PlainFormatter", tf)>>
                     ELSE IF logFormat = "JSON"
                     THEN <<Handler("FileHandler", "json_file", NOTSET, "JsonFormatter", tf)>>
                     ELSE <<>>)
    IN event \o (IF profiling THEN prof ELSE plain)

\* NTLogger.__init__
NTLogger(context, log_level) ==
    [context |-> _planify(context), log_level |-> log_level]

\* os.environ.get('JINA_VERBOSITY', 'INFO')
EnvGet(value, default) == IF value = None THEN default ELSE value

\* the assembly without logger.setLevel
Assemble_no_setLevel(context, profiling, sse, fmt_str, log_event, verbose_level, logFormat) ==
    [name |-> context, propagate |-> FALSE, level |-> NOTSET,
     handlers |-> NewHandlers(context, profiling, sse, fmt_str,
                              log_event, verbose_level, logFormat)]

\* lines 167-205: the logger a first acquisition leaves behind
Assemble(context, profiling, sse, fmt_str, log_event, verbose_level, logFormat) ==
    [name |-> context, propagate |-> FALSE, level |-> verbose_level,
     handlers |-> NewHandlers(context, profiling, sse, fmt_str,
                              log_event, verbose_level, logFormat)]

NoRet == [kind |-> None, env |-> None, had |-> FALSE, v |-> 0, context |-> <<>>]

\* get_logger without the test of line 166: every call attaches handlers
get_logger_no_handlers_test(context, profiling, sse, fmt_str, log_event, verbosityEnv, logFormat) ==
    LET parsed == from_string(EnvGet(verbosityEnv, "INFO"))
        verbose_level == parsed.value
        had == logger.handlers # <<>>
    IN  IF parsed.raised # None
        THEN /\ ret' = [kind |-> parsed.raised, env |-> verbosityEnv, had |-> had,
                        v |-> 0, context |-> <<>>]
             /\ UNCHANGED <<rootHandlers, logger>>
        ELSE IF osName = "nt"
        THEN /\ ret' = [kind |-> "NTLogger", env |-> verbosityEnv, had |-> had,
                        v |-> NTLogger(context, verbose_level).log_level,
                        context |-> NTLogger(context, verbose_level).context]
             /\ UNCHANGED <<rootHandlers, logger>>
        ELSE /\ rootHandlers' = {}
             /\ logger' = Assemble(context, profiling, sse, fmt_str,
                                   log_event, verbose_level, logFormat)
             /\ ret' = [kind |-> "Logger", env |-> verbosityEnv, had |-> had,
                        v |-> verbose_level, context |-> context]

\* get_logger with the root handlers removed before the verbosity is parsed
get_logger_root_first(context, profiling, sse, fmt_str, log_event, verbosityEnv, logFormat) ==
    LET parsed == from_string(EnvGet(verbosityEnv, "INFO"))
        verbose_level == parsed.value
        had == logger.handlers # <<>>
    IN  IF parsed.raised # None
        THEN /\ ret' = [kind |-> parsed.raised, env |-> verbosityEnv, had |-> had,
                        v |-> 0, context |-> <<>>]
             /\ rootHandlers' = {}
             /\ UNCHANGED logger
        ELSE IF osName = "nt"
        THEN /\ ret' = [kind |-> "NTLogger", env |-> verbosityEnv, had |-> had,
                        v |-> NTLogger(context, verbose_level).log_level,
                        context |-> NTLogger(context, verbose_level).context]
             /\ UNCHANGED <<rootHandlers, logger>>
        ELSE /\ rootHandlers' = {}
             /\ logger' =
                  IF ~had
                  THEN Assemble(context, profiling, sse, fmt_str,
                                log_event, verbose_level, logFormat)
                  ELSE [logger EXCEPT !.propagate = FALSE]
             /\ ret' = [kind |-> "Logger", env |-> verbosityEnv, had |-> had,
                        v |-> verbose_level, context |-> context]

get_logger(context, profiling, sse, fmt_str, log_event, verbosityEnv, logFormat) ==
    LET parsed == from_string(EnvGet(verbosityEnv, "INFO"))
        verbose_level == parsed.value
        had == logger.handlers # <<>>
    IN  IF parsed.raised # None
        THEN /\ ret' = [kind |-> parsed.raised, env |-> verbosityEnv, had |-> had,
                        v |-> 0, context |-> <<>>]
             /\ UNCHANGED <<rootHandlers, logger>>
        ELSE IF osName = "nt"
        THEN /\ ret' = [kind |-> "NTLogger", env |-> verbosityEnv, had |-> had,
                        v |-> NTLogger(context, verbose_level).log_level,
                        context |-> NTLogger(context, verbose_level).context]
             /\ UNCHANGED <<rootHandlers, logger>>
        ELSE /\ rootHandlers' = {}
             /\ logger' =
                  IF ~had
                  THEN Assemble(context, profiling, sse, fmt_str,
                                log_event, verbose_level, logFormat)
                  ELSE [logger EXCEPT !.propagate = FALSE]
             /\ ret' = [kind |-> "Logger", env |-> verbosityEnv, had |-> had,
                        v |-> verbose_level, context |-> context]

VerbosityEnvs == {None, "DEBUG", "INFO", "WARNING", "ERROR", "CRITICAL", "TRACE"}
LogFormats == {None, "TXT", "JSON", "XML"}
FmtStrs == {None, "custom"}
LogEvents == {None, "event"}

NoOp == [op |-> None, levelno |-> 0, msg |-> None, got |-> {}]
GetLoggerOp == [op |-> "get_logger", levelno |-> 0, msg |-> None, got |-> {}]

GetLoggerCall(profiling, sse, fmt_str, log_event, verbosityEnv, logFormat) ==
    /\ get_logger(Context, profiling, sse, fmt_str, log_event, verbosityEnv, logFormat)
    /\ lastOp' = GetLoggerOp
    /\ UNCHANGED <<osName, sinks, fileExists, ev>>
    /\ UNCHANGED <<eventVars, ntVars, fmtVars>>

GetLogger ==
    \E profiling \in BOOLEAN, sse \in BOOLEAN, fmt_str \in FmtStrs,
       log_event \in LogEvents, verbosityEnv \in VerbosityEnvs,
       logFormat \in LogFormats :
        GetLoggerCall(profiling, sse, fmt_str, log_event, verbosityEnv, logFormat)

\* ------------------------------------------------------------------------
\* Logging a record through the assembled logger
\* ------------------------------------------------------------------------
\* Logger.isEnabledFor: the logger's own threshold
isEnabledFor(lg, levelno) == levelno >= lg.level

\* Logger.callHandlers: the handlers the record is handed to
CallHandlers(lg, levelno) ==
    IF isEnabledFor(lg, levelno)
    THEN {i \in 1..Len(lg.handlers) : levelno >= lg.handlers[i].level}
    ELSE {}

\* ProfileFormatter.format updates the dict the record refers to, so a
\* handler that runs after it sees the merged mapping
MsgSeenBy(lg, got, i, msg) ==
    IF msg = "dict" /\ \E k \in got : k < i /\ lg.handlers[k].fmt = "ProfileFormatter"
    THEN "dict+attrs" ELSE msg

\* whether the handler's formatter returns a string for the message
Formats(fmt, msg) == fmt = "ProfileFormatter" => msg # "str"

\* the line handler i writes for the record
Line(lg, got, i, msg) ==
    [fmt |-> lg.handlers[i].fmt, msg |-> MsgSeenBy(lg, got, i, msg)]

\* handlers writing to a target: StreamHandler.emit / QueueHandler.emit append
\* the formatted record; a formatter error goes to handleError and nothing
\* is written
Written(lg, got, target, msg) ==
    LET is == {i \in got : /\ lg.handlers[i].target = target
                           /\ Formats(lg.handlers[i].fmt, msg)}
    IN  IF is = {} THEN <<>>
        ELSE LET i == CHOOSE k \in is : TRUE IN <<Line(lg, got, i, msg)>>

\* FileHandler.emit opens the stream (mode 'a') before formatting
OpenStreams(lg, got) ==
    [i \in 1..Len(lg.handlers) |->
        IF i \in got /\ lg.handlers[i].cls = "FileHandler"
        THEN [lg.handlers[i] EXCEPT !.stream = "open"]
        ELSE lg.handlers[i]]

\* EventHandler.emit as reached through the logger
EventAfter(lg, got, levelno, msg) ==
    IF \E i \in got : lg.handlers[i].cls = "EventHandler"
                      /\ levelno >= lg.handlers[i].level
    THEN [record |-> [fmt |-> "ColorFormatter", levelno |-> levelno, msg |-> msg],
          flag |-> TRUE]
    ELSE ev

Log(levelno, msg) ==
    /\ osName # "nt"
    /\ logger.handlers # <<>>
    /\ \A t \in Targets : Len(sinks[t]) < MaxLines
    /\ LET got == CallHandlers(logger, levelno) IN
        /\ logger' = [logger EXCEPT !.handlers = OpenStreams(logger, got)]
        /\ fileExists' = [t \in FileTargets |->
                \/ fileExists[t]
                \/ \E i \in got : /\ logger.handlers[i].cls = "FileHandler"
                                  /\ logger.handlers[i].target = t]
        /\ sinks' = [t \in Targets |-> sinks[t] \o Written(logger, got, t, msg)]
        /\ ev' = EventAfter(logger, got, levelno, msg)
        /\ lastOp' = [op |-> "log", levelno |-> levelno, msg |-> msg, got |-> got]
    /\ UNCHANGED <<osName, rootHandlers, ret>>
    /\ UNCHANGED <<eventVars, ntVars, fmtVars>>

LogRecord == \E levelno \in Levels, msg \in MsgKinds : Log(levelno, msg)

NoConsumer == [pc |-> "wait", n |-> 0, last |-> [fmt |-> None, levelno |-> 0, msg |-> None]]
NoRecord == [fmt |-> None, levelno |-> 0, msg |-> None]
EvEmpty == [record |-> NoRecord, flag |-> FALSE]

\* idle values of the parts a specification does not exercise
EventIdle ==
    /\ evLevel = NOTSET
    /\ evPc = <<>>
    /\ evRec = <<>>
    /\ evLeft = <<>>
    /\ evWrites = 0
    /\ consumed = NoConsumer

NTIdle == nt = None /\ ntOut = <<>> /\ ntLast = None

FmtIdle == record = None /\ heap = None /\ orig = None /\ fmtOut = None

NewLogger == [name |-> Context, propagate |-> TRUE, level |-> NOTSET, handlers |-> <<>>]

LoggerIdle ==
    /\ osName = "posix"
    /\ rootHandlers = {}
    /\ logger = NewLogger
    /\ sinks = [t \in Targets |-> <<>>]
    /\ fileExists = [t \in FileTargets |-> FALSE]
    /\ ret = NoRet
    /\ lastOp = NoOp

\* the process before its first get_logger call: getLogger(name) yields a
\* logger without handlers, level NOTSET, propagate True
Init ==
    /\ osName \in {"posix", "nt"}
    /\ rootHandlers \in {{}, {"root_handler"}}
    /\ logger = NewLogger
    /\ sinks = [t \in Targets |-> <<>>]
    /\ fileExists = [t \in FileTargets |-> FALSE]
    /\ ret = NoRet
    /\ lastOp = NoOp
    /\ ev = EvEmpty
    /\ EventIdle /\ NTIdle /\ FmtIdle

Next == GetLogger

Spec == Init /\ [][Next]_vars

\* the process after its first get_logger call on the non-Windows path
InitLog ==
    /\ osName = "posix"
    /\ rootHandlers = {}
    /\ \E profiling \in BOOLEAN, sse \in BOOLEAN, fmt_str \in FmtStrs,
          log_event \in LogEvents, logFormat \in LogFormats,
          verbosityEnv \in VerbosityEnvs \ {"TRACE"} :
          LET v == from_string(EnvGet(verbosityEnv, "INFO")).value IN
          /\ logger = Assemble(Context, profiling, sse, fmt_str, log_event, v, logFormat)
          /\ ret = [kind |-> "Logger", env |-> verbosityEnv, had |-> FALSE,
                    v |-> v, context |-> Context]
    /\ sinks = [t \in Targets |-> <<>>]
    /\ fileExists = [t \in FileTargets |-> FALSE]
    /\ lastOp = GetLoggerOp
    /\ ev = EvEmpty
    /\ EventIdle /\ NTIdle /\ FmtIdle

NextLog == LogRecord

SpecLog == InitLog /\ [][NextLog]_vars

\* ------------------------------------------------------------------------
\* The formatters
\* ------------------------------------------------------------------------
\* a record's message: a string, a reference to a dict on the heap, or
\* another object (an int)
StrMsg(str) == [kind |-> "str", s |-> str, ref |-> 0]
DictMsg == [kind |-> "dict", s |-> <<>>, ref |-> 1]
OtherMsg == [kind |-> "other", s |-> <<>>, ref |-> 0]

UserKeys == {"k", "memory", "name"}
RecordAttrs == {"created", "module", "name", "pathname", "process", "thread"}

\* the keys in use, in the order sort_keys=True puts them
KeyOrder == <<"created", "filename", "funcName", "k", "levelname", "lineno",
              "memory", "module", "msg", "name", "pathname", "process", "thread">>

\* getattr(cr, k) for the attributes a formatter copies
AttrOf(k) == <<"attr", k>>

\* str(msg)
StrOf(msg, h) ==
    CASE msg.kind = "str" -> msg.s
      [] msg.kind = "dict" -> <<"{">> \o <<"}">>
      [] OTHER -> <<"3">>

\* copy(record): a shallow copy, the message object is shared
copy(r) == r

\* ColorFormatter.MAPPING
MAPPING(levelname) ==
    CASE levelname = "DEBUG" -> <<"white", None>>
      [] levelname = "INFO" -> <<"white", None>>
      [] levelname = "WARNING" -> <<"yellow", "on_grey">>
      [] levelname = "ERROR" -> <<"white", "on_red">>
      [] levelname = "CRITICAL" -> <<"white", "on_green">>
      [] OTHER -> <<"white", None>>

NoOut == [fmt |-> None, status |-> None, color |-> <<>>, message |-> <<>>, items |-> <<>>]

\* json.dumps(d, sort_keys=True) as the sequence of its (key, value) pairs
Dumps(d) ==
    LET ks == SelectSeq(KeyOrder, LAMBDA k : k \in DOMAIN d)
    IN  [i \in 1..Len(ks) |-> <<ks[i], d[ks[i]]>>]

\* ColorFormatter.format: result, record after, heap after
ColorFormat(r, h) ==
    LET cr == copy(r)
        seq == MAPPING(cr.levelname)
    IN  [out |-> [fmt |-> "ColorFormatter", status |-> "ok", color |-> seq,
                  message |-> StrOf(cr.msg, h), items |-> <<>>],
         record |-> r, heap |-> h]

\* PlainFormatter.format
PlainFormat(r, h) ==
    LET cr == copy(r)
        msg == IF cr.msg.kind = "str" THEN re_sub(cr.msg.s) ELSE StrOf(cr.msg, h)
    IN  [out |-> [fmt |-> "PlainFormatter", status |-> "ok", color |-> <<>>,
                  message |-> msg, items |-> <<>>],
         record |-> r, heap |-> h]

JsonKeys == {"created", "filename", "funcName", "levelname", "lineno", "msg",
             "module", "name", "pathname", "process", "thread"}

\* JsonFormatter.format
JsonFormat(r, h) ==
    LET cr == copy(r)
        msg == re_sub(StrOf(cr.msg, h))
        d == [k \in JsonKeys |-> IF k = "msg" THEN msg ELSE AttrOf(k)]
    IN  [out |-> [fmt |-> "JsonFormatter", status |-> "ok", color |-> <<>>,
                  message |-> msg, items |-> Dumps(d)],
         record |-> r, heap |-> h]

\* ProfileFormatter.format without the memory sample
ProfileFormat_no_memory(r, h, memory) ==
    LET cr == copy(r) IN
    IF cr.msg.kind = "dict"
    THEN LET merged == [k \in DOMAIN h \cup RecordAttrs |->
                           IF k \in RecordAttrs THEN AttrOf(k) ELSE h[k]]
         IN  [out |-> [fmt |-> "ProfileFormatter", status |-> "ok", color |-> <<>>,
                       message |-> <<>>, items |-> Dumps(merged)],
              record |-> r, heap |-> merged]
    ELSE [out |-> [fmt |-> "ProfileFormatter", status |-> "TypeError", color |-> <<>>,
                   message |-> <<>>, items |-> <<>>],
          record |-> r, heap |-> h]

\* ProfileFormatter.format: cr.msg is the caller's dict, update() and the
\* 'memory' assignment change that object
ProfileFormat(r, h, memory) ==
    LET cr == copy(r) IN
    IF cr.msg.kind = "dict"
    THEN LET merged == [k \in DOMAIN h \cup RecordAttrs \cup {"memory"} |->
                           IF k = "memory" THEN memory
                           ELSE IF k \in RecordAttrs THEN AttrOf(k)
                           ELSE h[k]]
         IN  [out |-> [fmt |-> "ProfileFormatter", status |-> "ok", color |-> <<>>,
                       message |-> <<>>, items |-> Dumps(merged)],
              record |-> r, heap |-> merged]
    ELSE [out |-> [fmt |-> "ProfileFormatter", status |-> "TypeError", color |-> <<>>,
                   message |-> <<>>, items |-> <<>>],
          record |-> r, heap |-> h]

\* values of used_memory(unit=1)
MemorySamples == {<<"mem", 1>>, <<"mem", 2>>}

LevelNameInputs == {"INFO", "CRITICAL", "TRACE"}

EmptyHeap == [k \in {} |-> <<>>]

\* a record as a caller builds it, with the dict its message refers to
InitFmt ==
    /\ \/ /\ \E str \in StringsUpTo(MaxLen), ln \in LevelNameInputs :
                record = [levelname |-> ln, msg |-> StrMsg(str)]
          /\ heap = EmptyHeap
       \/ /\ \E ln \in LevelNameInputs : record = [levelname |-> ln, msg |-> OtherMsg]
          /\ heap = EmptyHeap
       \/ /\ \E ln \in LevelNameInputs : record = [levelname |-> ln, msg |-> DictMsg]
          /\ \E ks \in SUBSET UserKeys : heap = [k \in ks |-> <<"user", k>>]
    /\ orig = [record |-> record, heap |-> heap]
    /\ fmtOut = NoOut
    /\ LoggerIdle /\ ev = EvEmpty /\ EventIdle /\ NTIdle

Apply(res) ==
    /\ fmtOut = NoOut
    /\ fmtOut' = res.out
    /\ record' = res.record
    /\ heap' = res.heap
    /\ UNCHANGED <<orig, loggerVars, ev, eventVars, ntVars>>

FormatColor == Apply(ColorFormat(record, heap))
FormatPlain == Apply(PlainFormat(record, heap))
FormatJson == Apply(JsonFormat(record, heap))
FormatProfile == \E memory \in MemorySamples : Apply(ProfileFormat(record, heap, memory))

NextFmt == FormatColor \/ FormatPlain \/ FormatJson \/ FormatProfile

SpecFmt == InitFmt /\ [][NextFmt]_vars

\* an ESC '[' somewhere followed by a final byte
HasCSI(str) ==
    \E i \in 1..Len(str) :
        /\ i + 2 <= Len(str)
        /\ str[i] = ESC
        /\ str[i + 1] = "["
        /\ \E j \in (i + 2)..Len(str) : str[j] \in FinalBytes

RECURSIVE IsSubsequence(_, _)
IsSubsequence(a, b) ==
    IF a = <<>> THEN TRUE
    ELSE IF b = <<>> THEN FALSE
    ELSE IF Head(a) = Head(b) THEN IsSubsequence(Tail(a), Tail(b))
    ELSE IsSubsequence(a, Tail(b))

StrippedOutput == fmtOut.fmt \in {"PlainFormatter", "JsonFormatter"} /\ orig.record.msg.kind = "str"

\* C7: for every message string the Plain and the JSON Formatter emit a
\* message without any ESC '[' ... final-byte sequence, and the characters
\* outside such sequences are kept in order.
C7_NoCSILeft ==
    StrippedOutput =>
        /\ ~HasCSI(fmtOut.message)
        /\ IsSubsequence(fmtOut.message, orig.record.msg.s)
        /\ (~HasCSI(orig.record.msg.s) => fmtOut.message = orig.record.msg.s)
        /\ (orig.record.msg.s = <<ESC, "[", "3", "m", "3", "m">>
                => fmtOut.message = <<"3", "m">>)

Keys(items) == {items[i][1] : i \in 1..Len(items)}

Rank(k) == CHOOSE i \in 1..Len(KeyOrder) : KeyOrder[i] = k

\* C8: the Profile Formatter fails with TypeError and gives no output for a
\* message that is not a mapping; for a mapping it gives the JSON object
\* whose keys are the mapping's keys and created, module, name, pathname,
\* process, thread, memory, sorted.
C8_ProfileContract ==
    fmtOut.fmt = "ProfileFormatter" =>
        IF orig.record.msg.kind # "dict"
        THEN fmtOut.status = "TypeError" /\ fmtOut.items = <<>>
        ELSE /\ fmtOut.status = "ok"
             /\ Keys(fmtOut.items) = DOMAIN orig.heap \cup
                  {"created", "module", "name", "pathname", "process", "thread", "memory"}
             /\ \A i \in 1..(Len(fmtOut.items) - 1) :
                   Rank(fmtOut.items[i][1]) < Rank(fmtOut.items[i + 1][1])

C8_Witness ==
    /\ fmtOut.fmt = "ProfileFormatter"
    /\ fmtOut.status = "ok"
    /\ DOMAIN orig.heap = {"k", "memory"}
    /\ Len(fmtOut.items) = 8

\* C9: after format returns or fails the record, and the mapping its
\* message refers to, are as the caller built them.
C9_RecordUnchanged ==
    fmtOut # NoOut => record = orig.record /\ heap = orig.heap

\* ------------------------------------------------------------------------
\* NTLogger
\* ------------------------------------------------------------------------
NTContexts == {<<"j">>, <<ESC, "[", "3", "m", "j">>, <<ESC, ESC, "[", "m", "[", "j">>}
NTMsgs == {<<"m">>, <<ESC, "[", "3", "m", "m", ESC, "[", "m">>,
           <<ESC, ESC, "[", "m", "[", "m">>}

\* sys.stdout.write('X:%s:%s' % (self.context, self._planify(msg)))
NTWrite(initial, msg) ==
    ntOut' = Append(ntOut, <<initial, ":">> \o nt.context \o <<":">> \o _planify(msg))

NTOp(op, msg) ==
    /\ Len(ntOut) < MaxWrites
    /\ ntLast' = [op |-> op, msg |-> msg]
    /\ UNCHANGED <<nt, loggerVars, ev, eventVars, fmtVars>>

\* info with a strict comparison
info_strict(msg) ==
    /\ NTOp("info", msg)
    /\ IF nt.log_level < LogVerbosity["INFO"]
       THEN NTWrite("I", msg) ELSE UNCHANGED ntOut

info(msg) ==
    /\ NTOp("info", msg)
    /\ IF nt.log_level <= LogVerbosity["INFO"]
       THEN NTWrite("I", msg) ELSE UNCHANGED ntOut

critical(msg) ==
    /\ NTOp("critical", msg)
    /\ IF nt.log_level <= LogVerbosity["CRITICAL"]
       THEN NTWrite("C", msg) ELSE UNCHANGED ntOut

debug(msg) ==
    /\ NTOp("debug", msg)
    /\ IF nt.log_level <= LogVerbosity["DEBUG"]
       THEN NTWrite("D", msg) ELSE UNCHANGED ntOut

error(msg) ==
    /\ NTOp("error", msg)
    /\ IF nt.log_level <= LogVerbosity["ERROR"]
       THEN NTWrite("E", msg) ELSE UNCHANGED ntOut

warning(msg) ==
    /\ NTOp("warning", msg)
    /\ IF nt.log_level <= LogVerbosity["WARNING"]
       THEN NTWrite("W", msg) ELSE UNCHANGED ntOut

NTInfo == \E msg \in NTMsgs : info(msg)
NTCritical == \E msg \in NTMsgs : critical(msg)
NTDebug == \E msg \in NTMsgs : debug(msg)
NTError == \E msg \in NTMsgs : error(msg)
NTWarning == \E msg \in NTMsgs : warning(msg)

\* an NTLogger as get_logger hands it out on Windows
InitNT ==
    /\ \E context \in NTContexts, n \in DOMAIN LogVerbosity :
          /\ nt = NTLogger(context, LogVerbosity[n])
          /\ ntLast = [op |-> "__init__", msg |-> context]
    /\ ntOut = <<>>
    /\ LoggerIdle /\ ev = EvEmpty /\ EventIdle /\ FmtIdle

NextNT == NTInfo \/ NTCritical \/ NTDebug \/ NTError \/ NTWarning

SpecNT == InitNT /\ [][NextNT]_vars

\* the level and the initial of each write operation
OpLevel(op) ==
    CASE op = "debug" -> 1
      [] op = "info" -> 2
      [] op = "warning" -> 3
      [] op = "error" -> 4
      [] op = "critical" -> 5

OpInitial(op) ==
    CASE op = "debug" -> "D"
      [] op = "info" -> "I"
      [] op = "warning" -> "W"
      [] op = "error" -> "E"
      [] op = "critical" -> "C"

\* position of a threshold in DEBUG < INFO < WARNING < ERROR < CRITICAL
ThresholdRank(level) ==
    CHOOSE i \in 1..5 : LogVerbosity[LevelNames[i]] = level

Threads == {"t1", "t2"}

\* self.format(record) with the handler's formatter
EventFormat(rec) == [fmt |-> "ColorFormatter", levelno |-> rec.levelno, msg |-> rec.msg]

\* emit without the threshold test
EmitCheck_no_gate(t, levelno) ==
    /\ evPc[t] = "idle"
    /\ evLeft[t] > 0
    /\ evLeft' = [evLeft EXCEPT ![t] = @ - 1]
    /\ evRec' = [evRec EXCEPT ![t] = [levelno |-> levelno, msg |-> t]]
    /\ evPc' = [evPc EXCEPT ![t] = "store"]
    /\ UNCHANGED <<ev, evLevel, evWrites, consumed>>
    /\ UNCHANGED <<loggerVars, ntVars, fmtVars>>

\* emit, line 86: the threshold test; a record below it is dropped
EmitCheck(t, levelno) ==
    /\ evPc[t] = "idle"
    /\ evLeft[t] > 0
    /\ evLeft' = [evLeft EXCEPT ![t] = @ - 1]
    /\ evRec' = [evRec EXCEPT ![t] = [levelno |-> levelno, msg |-> t]]
    /\ evPc' = [evPc EXCEPT ![t] = IF levelno >= evLevel THEN "store" ELSE "idle"]
    /\ UNCHANGED <<ev, evLevel, evWrites, consumed>>
    /\ UNCHANGED <<loggerVars, ntVars, fmtVars>>

\* emit, line 87: self._event.record = self.format(record)
EmitStore(t) ==
    /\ evPc[t] = "store"
    /\ ev' = [ev EXCEPT !.record = EventFormat(evRec[t])]
    /\ evWrites' = evWrites + 1
    /\ evPc' = [evPc EXCEPT ![t] = "set"]
    /\ UNCHANGED <<evLevel, evRec, evLeft, consumed>>
    /\ UNCHANGED <<loggerVars, ntVars, fmtVars>>

\* emit, line 88: self._event.set()
EmitSet(t) ==
    /\ evPc[t] = "set"
    /\ ev' = [ev EXCEPT !.flag = TRUE]
    /\ evPc' = [evPc EXCEPT ![t] = "idle"]
    /\ UNCHANGED <<evLevel, evRec, evLeft, evWrites, consumed>>
    /\ UNCHANGED <<loggerVars, ntVars, fmtVars>>

\* the consumer: event.wait(), read event.record, event.clear()
ConsumerWake ==
    /\ consumed.pc = "wait"
    /\ ev.flag
    /\ consumed' = [consumed EXCEPT !.pc = "read"]
    /\ UNCHANGED <<ev, evLevel, evPc, evRec, evLeft, evWrites>>
    /\ UNCHANGED <<loggerVars, ntVars, fmtVars>>

ConsumerRead ==
    /\ consumed.pc = "read"
    /\ consumed' = [pc |-> "clear", n |-> consumed.n + 1, last |-> ev.record]
    /\ UNCHANGED <<ev, evLevel, evPc, evRec, evLeft, evWrites>>
    /\ UNCHANGED <<loggerVars, ntVars, fmtVars>>

ConsumerClear ==
    /\ consumed.pc = "clear"
    /\ ev' = [ev EXCEPT !.flag = FALSE]
    /\ consumed' = [consumed EXCEPT !.pc = "wait"]
    /\ UNCHANGED <<evLevel, evPc, evRec, evLeft, evWrites>>
    /\ UNCHANGED <<loggerVars, ntVars, fmtVars>>

Emit == \E t \in Threads, levelno \in Levels : EmitCheck(t, levelno)
Store == \E t \in Threads : EmitStore(t)
Signal == \E t \in Threads : EmitSet(t)

InitEvent ==
    /\ ev = EvEmpty
    /\ evLevel \in Levels \cup {NOTSET}
    /\ evPc = [t \in Threads |-> "idle"]
    /\ evRec = [t \in Threads |-> [levelno |-> 0, msg |-> t]]
    /\ evLeft = [t \in Threads |-> MaxEmits]
    /\ evWrites = 0
    /\ consumed = NoConsumer
    /\ LoggerIdle /\ NTIdle /\ FmtIdle

NextEvent == Emit \/ Store \/ Signal \/ ConsumerWake \/ ConsumerRead \/ ConsumerClear

SpecEvent == InitEvent /\ [][NextEvent]_vars

\* C5: the slot is written before the signal is set and only for records at
\* or above the threshold, so whenever the signal is set the slot holds the
\* formatted string of a passing record; an emit below the threshold changes
\* neither; the consumer retrieves one formatted passing record per wake-up.
C5_MostRecentWins ==
    [][/\ (ev'.flag => ev'.record # NoRecord /\ ev'.record.levelno >= evLevel)
       /\ (ev'.record # NoRecord => ev'.record.levelno >= evLevel)
       /\ (\A t \in Threads :
             (evPc[t] = "idle" /\ evLeft'[t] < evLeft[t] /\ evRec'[t].levelno < evLevel)
                => ev' = ev /\ evPc'[t] = "idle")
       /\ (ev'.record # ev.record =>
             \E t \in Threads : /\ evPc[t] = "store"
                                /\ ev'.record = EventFormat(evRec[t])
                                /\ ~ev'.flag = ~ev.flag)
       /\ (consumed'.n # consumed.n =>
             /\ consumed'.n = consumed.n + 1
             /\ consumed'.last = ev.record
             /\ consumed'.last.levelno >= evLevel)]_vars

\* two records were stored, every emitter is done, and the consumer woke up
\* once: one of the records was overwritten before it was read
C5_Witness ==
    /\ evWrites = 2
    /\ \A t \in Threads : evPc[t] = "idle"
    /\ consumed.n = 1
    /\ consumed.pc = "wait"
    /\ ~ev.flag

\* ------------------------------------------------------------------------
\* Properties of get_logger and of logging through the assembled logger
\* ------------------------------------------------------------------------
Assembled == logger.handlers # <<>>

\* the sinks of a logger as (class, target, formatter) triples, in order
SinkList(hs) == [i \in 1..Len(hs) |-> <<hs[i].cls, hs[i].target, hs[i].fmt>>]

\* C1: a get_logger call for a context name that already has sinks returns
\* the logger with the same list of sinks and the same threshold as before
\* the call, whatever the arguments and environment of that call.
C1_Idempotent ==
    [][(Assembled /\ lastOp'.op = "get_logger" /\ ret'.kind = "Logger")
          => /\ logger'.handlers = logger.handlers
             /\ logger'.level = logger.level
             /\ ret'.context = logger.name]_vars

C1_Witness ==
    /\ lastOp.op = "get_logger"
    /\ ret.kind = "Logger"
    /\ ret.had
    /\ ret.v # logger.level
    /\ Len(logger.handlers) = 1

\* the ordered sink list the configuration fixes
ExpectedSinks(profiling, sse, log_event, logFormat) ==
    (IF log_event # None
     THEN <<<<"EventHandler", "log_event", "ColorFormatter">>>> ELSE <<>>)
    \o
    (IF profiling
     THEN <<<<"FileHandler", "profile_file", "ProfileFormatter">>>>
          \o (IF sse THEN <<<<"QueueHandler", "profile_queue", "JsonFormatter">>>>
                     ELSE <<>>)
     ELSE (IF sse THEN <<<<"QueueHandler", "log_queue", "JsonFormatter">>>> ELSE <<>>)
          \o <<<<"StreamHandler", "stdout", "ColorFormatter">>>>
          \o (CASE logFormat = "TXT" ->
                    <<<<"FileHandler", "txt_file", "PlainFormatter">>>>
                [] logFormat = "JSON" ->
                    <<<<"FileHandler", "json_file", "JsonFormatter">>>>
                [] OTHER -> <<>>))

\* C2: on first acquisition the ordered sink list is exactly the one fixed by
\* log_event, profiling, sse and JINA_LOG_FORMAT; JSON without profiling,
\* sse and event gives stdout (Color) then file (JSON).
C2_SinkList ==
    [][(~Assembled /\ osName # "nt" /\ lastOp'.op = "get_logger"
        /\ ret'.env \in {None, "DEBUG", "INFO", "WARNING", "ERROR", "CRITICAL"})
       => \A profiling \in BOOLEAN, sse \in BOOLEAN, fmt_str \in FmtStrs,
             log_event \in LogEvents, logFormat \in LogFormats :
             GetLoggerCall(profiling, sse, fmt_str, log_event, ret'.env, logFormat)
             => /\ SinkList(logger'.handlers)
                    = ExpectedSinks(profiling, sse, log_event, logFormat)
                /\ (logFormat = "JSON" /\ ~profiling /\ ~sse /\ log_event = None
                    => SinkList(logger'.handlers)
                         = << <<"StreamHandler", "stdout", "ColorFormatter">>,
                              <<"FileHandler", "json_file", "JsonFormatter">> >>)]_vars

C2_Witness ==
    /\ lastOp.op = "get_logger"
    /\ ret.kind = "Logger"
    /\ ~ret.had
    /\ SinkList(logger.handlers)
         = << <<"StreamHandler", "stdout", "ColorFormatter">>,
              <<"FileHandler", "json_file", "JsonFormatter">> >>

\* C3: with V the verbosity the assembling call resolved, a record is handed
\* to a sink only if its level passes V and the sink's own threshold; no
\* sink gets a record below V and a record at or above V reaches every sink.
C3_DoubleGating ==
    /\ (ret.kind = "Logger" /\ ~ret.had => logger.level = ret.v)
    /\ Assembled =>
        /\ logger.level \in Levels
        /\ \A i \in 1..Len(logger.handlers) :
              /\ logger.handlers[i].level <= logger.level
              /\ i \in lastOp.got =>
                    /\ lastOp.levelno >= logger.level
                    /\ lastOp.levelno >= logger.handlers[i].level
              /\ (lastOp.op = "log" /\ lastOp.levelno >= logger.level)
                    => i \in lastOp.got
        /\ (ev.flag => ev.record.levelno >= logger.level)

C3_Witness ==
    /\ Assembled
    /\ lastOp.op = "log"
    /\ lastOp.levelno < logger.level
    /\ lastOp.got = {}
    /\ \E i \in 1..Len(logger.handlers) : logger.handlers[i].level = NOTSET

\* C4: a call with an unknown JINA_VERBOSITY name fails with the parsing
\* error and leaves the logger, its sinks, threshold and propagation flag and
\* the root logger's handlers as they were, on both platform paths.
C4_InvalidVerbosity ==
    [][(/\ lastOp'.op = "get_logger"
        /\ ret'.env \notin {None, "DEBUG", "INFO", "WARNING", "ERROR", "CRITICAL"}
        /\ <<ret, lastOp>> # <<ret', lastOp'>>)
          => /\ ret'.kind = InvalidVerbosity
             /\ logger' = logger
             /\ rootHandlers' = rootHandlers
             /\ sinks' = sinks
             /\ fileExists' = fileExists]_vars

C4_Witness ==
    /\ lastOp.op = "get_logger"
    /\ ret.kind = InvalidVerbosity
    /\ rootHandlers # {}
    /\ osName = "posix"

\* whether a record of the given level reaches handler h of the logger
Reaches(lg, h, levelno) == levelno >= lg.level /\ levelno >= h.level

IsPrefix(a, b) == Len(a) <= Len(b) /\ SubSeq(b, 1, Len(a)) = a

\* a record that does not reach a file sink leaves its stream and file
\* alone; the first record that reaches it opens it; lines are only appended
DeferredOpen(levelno) ==
    \A i \in 1..Len(logger.handlers) :
        LET h == logger.handlers[i] IN
        h.cls = "FileHandler" =>
            IF Reaches(logger, h, levelno)
            THEN /\ logger'.handlers[i].stream = "open"
                 /\ fileExists'[h.target]
                 /\ IsPrefix(sinks[h.target], sinks'[h.target])
            ELSE /\ logger'.handlers[i].stream = h.stream
                 /\ fileExists'[h.target] = fileExists[h.target]
                 /\ sinks'[h.target] = sinks[h.target]

\* assembly has opened no file
NoOpenAtAssembly ==
    /\ \A t \in FileTargets : ~fileExists[t] /\ sinks[t] = <<>>
    /\ \A i \in 1..Len(logger.handlers) :
          logger.handlers[i].cls = "FileHandler" => logger.handlers[i].stream = None

\* a step that logs a record (a record filtered out may leave the state as
\* it is)
LogStep == lastOp'.op = "log" /\ vars' # vars

\* C10 as stated: assembly opens no file, a filtered-out record opens none,
\* the first record reaching a file sink opens it, and every record reaching
\* a file sink appends one line.
C10_EveryRecordAppends ==
    /\ NoOpenAtAssembly
    /\ [][LogStep =>
              /\ DeferredOpen(lastOp'.levelno)
              /\ \A i \in 1..Len(logger.handlers) :
                   LET h == logger.handlers[i] IN
                   (h.cls = "FileHandler" /\ Reaches(logger, h, lastOp'.levelno)) =>
                       Len(sinks'[h.target]) = Len(sinks[h.target]) + 1]_vars

\* C10 amended: a record reaching a file sink appends one line when the
\* sink's formatter accepts it; a record the Profile Formatter rejects opens
\* the file and appends nothing.
C10_DeferredOpen ==
    /\ NoOpenAtAssembly
    /\ [][LogStep =>
              /\ DeferredOpen(lastOp'.levelno)
              /\ \A i \in 1..Len(logger.handlers) :
                   LET h == logger.handlers[i] IN
                   (h.cls = "FileHandler" /\ Reaches(logger, h, lastOp'.levelno)) =>
                       IF h.fmt = "ProfileFormatter" /\ lastOp'.msg # "dict"
                       THEN sinks'[h.target] = sinks[h.target]
                       ELSE Len(sinks'[h.target]) = Len(sinks[h.target]) + 1]_vars

C10_Witness ==
    /\ Assembled
    /\ \E i \in 1..Len(logger.handlers) :
          /\ logger.handlers[i].cls = "FileHandler"
          /\ logger.handlers[i].stream = "open"
          /\ fileExists[logger.handlers[i].target]
          /\ Len(sinks[logger.handlers[i].target]) = 2
    /\ lastOp.op = "log"

====
